---- MODULE Spec2Model ----
(***************************************************************************)
(* log-bouncer: the tail + checkpoint pipeline.                            *)
(*                                                                         *)
(*   TailedFile (tail.rs)  -> Reader thread (reader.rs) -> mpsc queue      *)
(*   -> Publisher (publisher.rs) -> OutputAdapter                          *)
(*   Publisher -> watch(offset) -> Rotator (rotator.rs) -> SavedState file *)
(*                                                                         *)
(* Bytes are their ASCII codes, file contents are sequences of bytes.      *)
(* 32-bit checksums are pairs <<hi, lo>> of 16-bit halves.                 *)
(***************************************************************************)
EXTENDS Integers, Sequences, FiniteSets, TLC

(***************************************************************************)
(* Bounds of the model.                                                    *)
(***************************************************************************)
MaxLen == 2
MaxFaults == 1
\* max_size, and how many rotation periods are followed
MaxSize == 1
MaxPeriods == 2
\* formatted timestamps 0..MaxStamp, and how many calls of rotate are followed
MaxStamp == 1
MaxRotations == 2

(***************************************************************************)
(* Program constants.                                                      *)
(***************************************************************************)
NL == 10
SP == 32
SEMI == 59
PLUS == 43
Digit0 == 48
BufferPublish == 1

Half == 2^16
PolyHi == 33526
PolyLo == 15224

(***************************************************************************)
(* Sequence helpers.                                                       *)
(***************************************************************************)
Take(s, n) == SubSeq(s, 1, n)
Last(s) == s[Len(s)]
IsPrefix(s, t) == Len(s) <= Len(t) /\ Take(t, Len(s)) = s
\* the element of a one-element set
The(S) == CHOOSE e \in S : TRUE

(***************************************************************************)
(* CRC-32/ISCSI (reflected, init and xorout 0xFFFFFFFF) on <<hi, lo>>.     *)
(***************************************************************************)
RECURSIVE XorN(_, _, _)
XorN(a, b, n) ==
    IF n = 0 THEN 0
    ELSE ((a + b) % 2) + 2 * XorN(a \div 2, b \div 2, n - 1)

Xor16(a, b) == XorN(a, b, 16)

Xor32(x, y) ==
    The({<<Xor16(u[1], v[1]), Xor16(u[2], v[2])>> : u \in {x}, v \in {y}})

Shr1(x) == <<x[1] \div 2, (x[2] \div 2) + (x[1] % 2) * 32768>>

Shr8(x) == <<x[1] \div 256, (x[2] \div 256) + (x[1] % 256) * 256>>

RECURSIVE CrcRounds(_, _)
CrcRounds(x, n) ==
    IF n = 0 THEN x
    ELSE The({CrcRounds(IF v[2] % 2 = 1
                        THEN Xor32(Shr1(v), <<PolyHi, PolyLo>>)
                        ELSE Shr1(v), n - 1) : v \in {x}})

CrcTable == [i \in 0..255 |-> CrcRounds(<<0, i>>, 8)]

CrcUpdate(crc, b) == Xor32(CrcTable[Xor16(crc[2], b) % 256], Shr8(crc))

RECURSIVE CrcFeed(_, _)
CrcFeed(crc, bytes) ==
    The({IF bs = <<>> THEN c
         ELSE CrcFeed(CrcUpdate(c, Head(bs)), Tail(bs)) :
            c \in {crc}, bs \in {bytes}})

Checksum(bytes) == Xor32(CrcFeed(<<65535, 65535>>, bytes), <<65535, 65535>>)

(***************************************************************************)
(* Decimal text: format!("{}") of a u32 / u64, and str::parse::<u64>.      *)
(* A parsed u64 is four base-65536 limbs, most significant first.          *)
(***************************************************************************)
RECURSIVE DigitsNat(_)
DigitsNat(n) ==
    IF n < 10 THEN <<Digit0 + n>>
    ELSE DigitsNat(n \div 10) \o <<Digit0 + (n % 10)>>

FormatU64(n) == DigitsNat(n)

Div10(x) ==
    LET t == (x[1] % 10) * Half + x[2]
    IN  [q |-> <<x[1] \div 10, t \div 10>>, r |-> t % 10]

RECURSIVE DigitsU32(_)
DigitsU32(x) ==
    The({IF v[1] = 0 /\ v[2] < 10 THEN <<Digit0 + v[2]>>
         ELSE DigitsU32(Div10(v).q) \o <<Digit0 + Div10(v).r>> : v \in {x}})

FormatU32(x) == DigitsU32(x)

IsDigit(b) == b >= Digit0 /\ b <= Digit0 + 9

\* limbs * 10 + d; ok is FALSE on overflow of 64 bits
MulAdd10(l, d) ==
    LET t4 == l[4] * 10 + d
        t3 == l[3] * 10 + (t4 \div Half)
        t2 == l[2] * 10 + (t3 \div Half)
        t1 == l[1] * 10 + (t2 \div Half)
    IN  [ok |-> t1 < Half, v |-> <<t1 % Half, t2 % Half, t3 % Half, t4 % Half>>]

RECURSIVE ParseDigits(_, _)
ParseDigits(s, acc) ==
    IF s = <<>> THEN [ok |-> TRUE, v |-> acc]
    ELSE IF ~IsDigit(Head(s)) THEN [ok |-> FALSE, v |-> acc]
    ELSE The({IF m.ok THEN ParseDigits(Tail(s), m.v)
              ELSE [ok |-> FALSE, v |-> acc] :
                 m \in {MulAdd10(acc, Head(s) - Digit0)}})

\* str::parse::<u64>: an optional '+', then at least one digit
ParseU64(s) ==
    LET d == IF s # <<>> /\ Head(s) = PLUS THEN Tail(s) ELSE s
    IN  IF d = <<>> THEN [ok |-> FALSE, v |-> <<0, 0, 0, 0>>]
        ELSE ParseDigits(d, <<0, 0, 0, 0>>)

AsU32(l) == <<l[3], l[4]>>

U64ToNat(l) == ((l[1] * Half + l[2]) * Half + l[3]) * Half + l[4]

\* str::split(";")
RECURSIVE SplitFrom(_, _)
SplitFrom(s, piece) ==
    IF s = <<>> THEN <<piece>>
    ELSE IF Head(s) = SEMI THEN <<piece>> \o SplitFrom(Tail(s), <<>>)
    ELSE SplitFrom(Tail(s), Append(piece, Head(s)))

Split(s) == SplitFrom(s, <<>>)

(***************************************************************************)
(* SavedState (rotator.rs): the sidecar holds "{uniq_id};{position}".      *)
(***************************************************************************)
IsWhite(b) == b \in {9, 10, 11, 12, 13, SP}

RECURSIVE TrimStart(_)
TrimStart(s) ==
    IF s # <<>> /\ IsWhite(Head(s)) THEN TrimStart(Tail(s)) ELSE s

RECURSIVE TrimEnd(_)
TrimEnd(s) ==
    IF s # <<>> /\ IsWhite(Last(s)) THEN TrimEnd(Take(s, Len(s) - 1)) ELSE s

Trim(s) == TrimEnd(TrimStart(s))

\* index of the first newline after byte offset pos, 0 when there is none
NextNL(f, pos) ==
    IF \E i \in (pos + 1)..Len(f) : f[i] = NL
    THEN CHOOSE i \in (pos + 1)..Len(f) :
             f[i] = NL /\ \A j \in (pos + 1)..(i - 1) : f[j] # NL
    ELSE 0

\* BufReader::read_line from the start: up to and including the first newline
FirstLine(f) == IF NextNL(f, 0) = 0 THEN f ELSE Take(f, NextNL(f, 0))

get_uniq_id(f) == Checksum(Trim(FirstLine(f)))

\* the bytes save(pos) writes
SaveData(f, pos) == FormatU32(get_uniq_id(f)) \o <<SEMI>> \o FormatU64(pos)

ParsedFields(content) ==
    LET pieces == Split(content)
        good == SelectSeq(pieces, LAMBDA e : ParseU64(e).ok)
    IN  [i \in 1..Len(good) |-> ParseU64(good[i]).v]

\* read_file: ok is FALSE for CorruptedSavedState
read_file(content, f) ==
    LET state == ParsedFields(content)
    IN  IF Len(state) # 2 THEN [ok |-> FALSE, pos |-> 0]
        ELSE IF AsU32(state[1]) = get_uniq_id(f)
             THEN [ok |-> TRUE, pos |-> U64ToNat(state[2])]
             ELSE [ok |-> TRUE, pos |-> 0]

\* Rotator::recover_position: the starting position and the sidecar it leaves
recover_position(content, f) ==
    LET r == read_file(content, f)
    IN  IF r.ok THEN [pos |-> r.pos, sidecar |-> content]
        ELSE [pos |-> 0, sidecar |-> SaveData(f, 0)]

(***************************************************************************)
(* TailedFile (tail.rs).  A tail is [pos, ino].                            *)
(***************************************************************************)
\* read without the ends_with('\n') test: the unterminated tail is a line too
RECURSIVE TailReadPartial(_, _)
TailReadPartial(f, pos) ==
    LET nl == NextNL(f, pos)
    IN  IF nl = 0
        THEN IF pos < Len(f)
             THEN [lines |-> <<SubSeq(f, pos + 1, Len(f))>>, pos |-> Len(f)]
             ELSE [lines |-> <<>>, pos |-> pos]
        ELSE LET rest == TailReadPartial(f, nl)
             IN  [lines |-> <<SubSeq(f, pos + 1, nl - 1)>> \o rest.lines,
                  pos |-> rest.pos]

\* read without self.pos += n
RECURSIVE TailReadNoAdvance(_, _)
TailReadNoAdvance(f, pos) ==
    LET nl == NextNL(f, pos)
    IN  IF nl = 0 THEN [lines |-> <<>>, pos |-> pos]
        ELSE LET rest == TailReadNoAdvance(f, nl)
             IN  [lines |-> <<SubSeq(f, pos + 1, nl - 1)>> \o rest.lines,
                  pos |-> pos]

RECURSIVE TailRead(_, _)
TailRead(f, pos) ==
    LET nl == NextNL(f, pos)
    IN  IF nl = 0 THEN [lines |-> <<>>, pos |-> pos]
        ELSE LET rest == TailRead(f, nl)
             IN  [lines |-> <<SubSeq(f, pos + 1, nl - 1)>> \o rest.lines,
                  pos |-> rest.pos]

has_been_rotated(t, ino) == ino # t.ino

has_been_truncated(t, ino, f) == ino = t.ino /\ Len(f) < t.pos

\* follow that resets the position on truncation without returning FileTruncated
TailFollowSilentTruncate(t, ino, f) ==
    IF has_been_rotated(t, ino)
    THEN [tail |-> [pos |-> 0, ino |-> ino], res |-> "rotated", lines |-> <<>>]
    ELSE LET from == IF has_been_truncated(t, ino, f) THEN 0 ELSE t.pos
             r == TailRead(f, from)
         IN  [tail |-> [pos |-> r.pos, ino |-> t.ino], res |-> "ok",
              lines |-> r.lines]

\* follow that resets the position on rotation without returning FileRotated
TailFollowSilentRotate(t, ino, f) ==
    IF has_been_truncated(t, ino, f)
    THEN [tail |-> [pos |-> 0, ino |-> t.ino], res |-> "truncated", lines |-> <<>>]
    ELSE LET from == IF has_been_rotated(t, ino) THEN 0 ELSE t.pos
             r == TailRead(f, from)
         IN  [tail |-> [pos |-> r.pos, ino |-> ino], res |-> "ok",
              lines |-> r.lines]

\* follow that returns FileTruncated together with the lines read from byte 0
TailFollowTruncatedWithLines(t, ino, f) ==
    IF has_been_rotated(t, ino)
    THEN [tail |-> [pos |-> 0, ino |-> ino], res |-> "rotated", lines |-> <<>>]
    ELSE LET from == IF has_been_truncated(t, ino, f) THEN 0 ELSE t.pos
             r == TailRead(f, from)
         IN  [tail |-> [pos |-> r.pos, ino |-> t.ino],
              res |-> IF has_been_truncated(t, ino, f) THEN "truncated" ELSE "ok",
              lines |-> r.lines]

\* follow that records the new identity on rotation but keeps the position
TailFollowRotatedKeepsCursor(t, ino, f) ==
    IF has_been_rotated(t, ino)
    THEN [tail |-> [pos |-> t.pos, ino |-> ino], res |-> "rotated", lines |-> <<>>]
    ELSE IF has_been_truncated(t, ino, f)
    THEN [tail |-> [pos |-> 0, ino |-> t.ino], res |-> "truncated", lines |-> <<>>]
    ELSE LET r == TailRead(f, t.pos)
         IN  [tail |-> [pos |-> r.pos, ino |-> t.ino], res |-> "ok",
              lines |-> r.lines]

\* TailedFile::follow on the file (inode ino, content f) now at the path
TailFollow(t, ino, f) ==
    IF has_been_rotated(t, ino)
    THEN [tail |-> [pos |-> 0, ino |-> ino], res |-> "rotated", lines |-> <<>>]
    ELSE IF has_been_truncated(t, ino, f)
    THEN [tail |-> [pos |-> 0, ino |-> t.ino], res |-> "truncated", lines |-> <<>>]
    ELSE LET r == TailRead(f, t.pos)
         IN  [tail |-> [pos |-> r.pos, ino |-> t.ino], res |-> "ok",
              lines |-> r.lines]

(***************************************************************************)
(* State.                                                                  *)
(*   file, inode, sidecar : the target at the watched path (content and    *)
(*                          identity) and the saved-state file             *)
(*   startPos             : Rotator.pos / Reader.pos, the recovered offset *)
(*   tail, rdPc, batch    : the Reader thread and its TailedFile           *)
(*   queue                : the mpsc channel of LineInfo                   *)
(*   pubPc, cur           : the Publisher and the line inside fnc.send     *)
(*   watermark, wmChanged : the watch channel and its unseen-version flag  *)
(* History (not read by any guard or assignment of program state):         *)
(*   nRot, nTrunc, nCrash : how often the environment rotated / truncated  *)
(*                          the target and the process was restarted       *)
(*   nSig                 : signals (rotated / truncated) follow reported  *)
(*   emitted              : lines returned by follow in this run           *)
(*   sent, nAck           : lines passed to fnc.send in this run, and how  *)
(*                          many of them returned Ok                       *)
(*   wmRec                : the line whose offset the watch holds          *)
(*   lastAckEnd           : true end offset of the last acknowledged line  *)
(*   crashAckEnd          : lastAckEnd at the last restart                 *)
(*   ckpt                 : for the last checkpoint written, the file whose *)
(*                          fingerprint it holds (fpIno) and the file of   *)
(*                          the acknowledged line its offset is (offIno)   *)
(*   rt                   : what the specification at hand records of the  *)
(*                          operation it follows (a save and the load      *)
(*                          after it, a save cut short, rotation periods,  *)
(*                          calls of rotate, the file renamed away); its   *)
(*                          fields are given with each specification       *)
(* A line on its way carries, besides (pos, line), where it was read:      *)
(* end (the offset just past its newline), ino (the file), ep (nSig).      *)
(***************************************************************************)
VARIABLES file, inode, sidecar, startPos, tail, rdPc, batch,
          queue, pubPc, cur, watermark, wmChanged,
          nRot, nTrunc, nCrash, nSig, emitted, sent, nAck, wmRec,
          lastAckEnd, crashAckEnd, ckpt, rt

vars == <<file, inode, sidecar, startPos, tail, rdPc, batch,
          queue, pubPc, cur, watermark, wmChanged,
          nRot, nTrunc, nCrash, nSig, emitted, sent, nAck, wmRec,
          lastAckEnd, crashAckEnd, ckpt, rt>>

fsVars == <<file, inode, nRot, nTrunc>>
readerVars == <<tail, rdPc, batch, nSig, emitted>>
pubVars == <<pubPc, cur, sent, nAck, lastAckEnd>>
watchVars == <<watermark, wmChanged, wmRec>>
rotVars == <<sidecar, ckpt>>
runVars == <<startPos, nCrash, crashAckEnd>>

\* what writers append: a data byte or a newline
Bytes == {97, NL}

\* rotations, truncations and restarts so far
Faults == nRot + nTrunc + nCrash

\* run() returns, and the process ends, as soon as publish() returns (lib.rs:89-93)
Alive == pubPc # "exited"

\* the target has been neither rotated nor truncated
Clean == nRot = 0 /\ nTrunc = 0

NoLine == [pos |-> 0, line |-> <<>>, end |-> 0, ino |-> 0, ep |-> 0]
NoCkpt == [fpIno |-> 0, offIno |-> 0]
NoRt == [phase |-> "idle", line |-> <<>>, pos |-> 0, ok |-> TRUE]

\* offsets just past each newline of f after byte offset from, in file order
LineEnds(f, from) ==
    LET nls == {i \in (from + 1)..Len(f) : f[i] = NL}
    IN  [k \in 1..Cardinality(nls) |->
            CHOOSE i \in nls : Cardinality({j \in nls : j <= i}) = k]

\* a start in which the Reader leaves out set_pos and reads from 0
StartupFromZero(ino, f, sc) ==
    LET rec == recover_position(sc, f)
    IN  /\ sidecar' = rec.sidecar
        /\ startPos' = rec.pos
        /\ watermark' = rec.pos
        /\ wmChanged' = TRUE
        /\ wmRec' = NoLine
        /\ tail' = [pos |-> 0, ino |-> ino]
        /\ rdPc' = "follow"
        /\ batch' = <<>>
        /\ queue' = <<>>
        /\ pubPc' = "recv"
        /\ cur' = NoLine
        /\ nSig' = 0
        /\ emitted' = <<>>
        /\ sent' = <<>>
        /\ nAck' = 0

\* the process after Rotator::new, state_tx.send, Reader::work's TailedFile::new
\* and set_pos, on target (ino, f) and sidecar content sc
Startup(ino, f, sc) ==
    LET rec == recover_position(sc, f)
    IN  /\ sidecar' = rec.sidecar
        /\ startPos' = rec.pos
        /\ watermark' = rec.pos
        /\ wmChanged' = TRUE
        /\ wmRec' = NoLine
        /\ tail' = [pos |-> rec.pos, ino |-> ino]
        /\ rdPc' = "follow"
        /\ batch' = <<>>
        /\ queue' = <<>>
        /\ pubPc' = "recv"
        /\ cur' = NoLine
        /\ nSig' = 0
        /\ emitted' = <<>>
        /\ sent' = <<>>
        /\ nAck' = 0

\* everything but the target, the sidecar and the recovered position
InitRest ==
    /\ inode = 1
    /\ watermark = startPos
    /\ wmChanged = TRUE
    /\ wmRec = NoLine
    /\ tail = [pos |-> startPos, ino |-> 1]
    /\ rdPc = "follow"
    /\ batch = <<>>
    /\ queue = <<>>
    /\ pubPc = "recv"
    /\ cur = NoLine
    /\ nRot = 0 /\ nTrunc = 0 /\ nCrash = 0 /\ nSig = 0
    /\ emitted = <<>> /\ sent = <<>> /\ nAck = 0
    /\ lastAckEnd = 0 /\ crashAckEnd = 0
    /\ ckpt = NoCkpt

\* first start: empty target, empty sidecar
Init ==
    /\ file = <<>>
    /\ sidecar = recover_position(<<>>, <<>>).sidecar
    /\ startPos = recover_position(<<>>, <<>>).pos
    /\ rt = NoRt
    /\ InitRest

(***************************************************************************)
(* The environment: writers, truncation, rename + recreate, kill + start.  *)
(***************************************************************************)
\* emitted, sent, nAck, lastAckEnd and crashAckEnd record the runs in which the
\* target is neither rotated nor truncated; they are dropped at the first
\* rotation or truncation and stay empty from then on
Forget ==
    /\ emitted' = <<>>
    /\ sent' = <<>>
    /\ nAck' = 0
    /\ lastAckEnd' = 0
    /\ crashAckEnd' = 0

AppendByte ==
    /\ Len(file) < MaxLen
    /\ \E b \in Bytes : file' = Append(file, b)
    /\ UNCHANGED <<rt, inode, nRot, nTrunc, readerVars, queue, pubVars, watchVars,
                   rotVars, runVars>>

Truncate ==
    /\ Faults < MaxFaults
    /\ \E k \in 0..(Len(file) - 1) : file' = Take(file, k)
    /\ nTrunc' = nTrunc + 1
    /\ Forget
    /\ UNCHANGED <<rt, inode, nRot, tail, rdPc, batch, nSig, queue, pubPc,
                   cur, watchVars, rotVars, startPos, nCrash>>

Rotate ==
    /\ Faults < MaxFaults
    /\ inode' = inode + 1
    /\ file' = <<>>
    /\ nRot' = nRot + 1
    /\ Forget
    /\ UNCHANGED <<rt, nTrunc, tail, rdPc, batch, nSig, queue, pubPc,
                   cur, watchVars, rotVars, startPos, nCrash>>

CrashRestart ==
    /\ Faults < MaxFaults
    /\ nCrash' = nCrash + 1
    /\ crashAckEnd' = lastAckEnd
    /\ Startup(inode, file, sidecar)
    /\ UNCHANGED <<rt, fsVars, lastAckEnd, ckpt>>

(***************************************************************************)
(* Reader::work (reader.rs:42-62).                                         *)
(***************************************************************************)
\* the lines of one follow, each with where it was read
Stamp(lines, f, from, ino, ep) ==
    LET ends == LineEnds(f, from)
    IN  [k \in 1..Len(lines) |->
            [line |-> lines[k],
             end |-> IF k <= Len(ends) THEN ends[k] ELSE 0,
             ino |-> ino, ep |-> ep]]

\* one turn of the loop: tail.follow(), then the for over its lines
Poll ==
    /\ rdPc = "follow"
    /\ LET r == TailFollow(tail, inode, file)
       IN  /\ tail' = r.tail
           /\ nSig' = IF r.res = "ok" THEN nSig ELSE nSig + 1
           /\ batch' = Stamp(r.lines, file, tail.pos, inode, nSig)
           /\ emitted' = IF Clean THEN emitted \o batch' ELSE <<>>
           /\ rdPc' = IF r.lines = <<>> THEN "follow" ELSE "send"
    /\ UNCHANGED <<rt, fsVars, queue, pubVars, watchVars, rotVars, runVars>>

Follow == Alive /\ Poll

\* the offset Reader::work sends with a line
SendPos(t, item) == t.pos

BlockingSend ==
    /\ Alive
    /\ rdPc = "send"
    /\ Len(queue) < BufferPublish
    /\ queue' = Append(queue, [pos |-> SendPos(tail, Head(batch)),
                               line |-> Head(batch).line,
                               end |-> Head(batch).end,
                               ino |-> Head(batch).ino,
                               ep |-> Head(batch).ep])
    /\ batch' = Tail(batch)
    /\ rdPc' = IF Tail(batch) = <<>> THEN "follow" ELSE "send"
    /\ UNCHANGED <<rt, fsVars, tail, nSig, emitted, pubVars, watchVars,
                   rotVars, runVars>>

(***************************************************************************)
(* Publisher::publish (publisher.rs:37-47).                                *)
(***************************************************************************)
Recv ==
    /\ pubPc = "recv"
    /\ queue # <<>>
    /\ cur' = Head(queue)
    /\ queue' = Tail(queue)
    /\ sent' = IF Clean THEN Append(sent, Head(queue)) ELSE <<>>
    /\ pubPc' = "send"
    /\ UNCHANGED <<rt, fsVars, readerVars, nAck, lastAckEnd, watchVars, rotVars,
                   runVars>>

SendOk ==
    /\ pubPc = "send"
    /\ watermark' = cur.pos
    /\ wmChanged' = TRUE
    /\ wmRec' = cur
    /\ nAck' = IF Clean THEN nAck + 1 ELSE 0
    /\ lastAckEnd' = IF Clean THEN cur.end ELSE 0
    /\ cur' = NoLine
    /\ pubPc' = "recv"
    /\ UNCHANGED <<rt, fsVars, readerVars, queue, sent, rotVars, runVars>>

\* an error branch that stores the offset before leaving the loop
SendErrStoresOffset ==
    /\ pubPc = "send"
    /\ watermark' = cur.pos
    /\ wmChanged' = TRUE
    /\ wmRec' = cur
    /\ cur' = NoLine
    /\ pubPc' = "exited"
    /\ UNCHANGED <<rt, fsVars, readerVars, queue, sent, nAck, lastAckEnd,
                   rotVars, runVars>>

SendErr ==
    /\ pubPc = "send"
    /\ cur' = NoLine
    /\ pubPc' = "exited"
    /\ UNCHANGED <<rt, fsVars, readerVars, queue, sent, nAck, lastAckEnd,
                   watchVars, rotVars, runVars>>

(***************************************************************************)
(* Rotator::work (rotator.rs:198-212) and SavedState::save (326-337).      *)
(***************************************************************************)
\* a save that writes the recovered position instead of the watch value
SaveStartPos ==
    /\ Alive
    /\ wmChanged
    /\ wmChanged' = FALSE
    /\ sidecar' = SaveData(file, startPos)
    /\ ckpt' = [fpIno |-> inode, offIno |-> wmRec.ino]
    /\ UNCHANGED <<rt, fsVars, readerVars, queue, pubVars, watermark, wmRec,
                   runVars>>

\* changed() returned, borrow_and_update, then the whole of save(pos):
\* get_uniq_id of the file now at the path, set_len(0), seek, write_all
Save ==
    /\ Alive
    /\ wmChanged
    /\ wmChanged' = FALSE
    /\ sidecar' = SaveData(file, watermark)
    /\ ckpt' = [fpIno |-> inode, offIno |-> wmRec.ino]
    /\ UNCHANGED <<rt, fsVars, readerVars, queue, pubVars, watermark, wmRec,
                   runVars>>

Next ==
    \/ AppendByte
    \/ Truncate
    \/ Rotate
    \/ CrashRestart
    \/ Follow
    \/ BlockingSend
    \/ Recv
    \/ SendOk
    \/ SendErr
    \/ Save

Spec == Init /\ [][Next]_vars

(***************************************************************************)
(* SavedState alone: save(pos), then read_file by the next process, with   *)
(* the target rewritten or not in between.                                 *)
(***************************************************************************)
CkLen == 2

RECURSIVE SeqsUpTo(_, _)
SeqsUpTo(S, n) ==
    IF n = 0 THEN {<<>>}
    ELSE LET shorter == SeqsUpTo(S, n - 1)
         IN  shorter \cup {Append(q, b) : q \in shorter, b \in S}

CkFiles == SeqsUpTo({97, SP, NL}, CkLen)

CkOffsets == {0, 1, 10, 65536, 2147483647}

\* the first line of f, up to but excluding the first newline
FirstLineText(f) == IF NextNL(f, 0) = 0 THEN f ELSE Take(f, NextNL(f, 0) - 1)

CkInit ==
    /\ file \in CkFiles
    /\ sidecar = <<>>
    /\ startPos = 0
    /\ rt = NoRt
    /\ InitRest

ckFrame == <<inode, tail, rdPc, batch, queue, pubPc, cur, watermark,
             wmChanged, nRot, nTrunc, nCrash, nSig, emitted, sent, nAck,
             wmRec, lastAckEnd, crashAckEnd, ckpt>>

CkSave ==
    /\ rt.phase # "saved"
    /\ \E pos \in CkOffsets :
          /\ sidecar' = SaveData(file, pos)
          /\ rt' = [phase |-> "saved", line |-> FirstLineText(file),
                    pos |-> pos, ok |-> TRUE]
    /\ UNCHANGED <<file, startPos, ckFrame>>

CkRewrite ==
    /\ rt.phase = "saved"
    /\ \E f \in CkFiles : f # file /\ file' = f
    /\ UNCHANGED <<sidecar, startPos, rt, ckFrame>>

CkLoad ==
    /\ rt.phase = "saved"
    /\ LET r == read_file(sidecar, file)
       IN  /\ startPos' = r.pos
           /\ rt' = [rt EXCEPT !.phase = "loaded", !.ok = r.ok]
    /\ UNCHANGED <<file, sidecar, ckFrame>>

CkNext ==
    \/ CkSave
    \/ CkRewrite
    \/ CkLoad

SpecCkpt == CkInit /\ [][CkNext]_vars

(***************************************************************************)
(* SavedState::save step by step, with the process killed inside it and    *)
(* Rotator::recover_position run by the next process.  Here rt is          *)
(* [phase, prev, pos]: prev the offset the sidecar held when save began,   *)
(* pos the offset being saved.                                             *)
(***************************************************************************)
CrInit ==
    /\ file \in CkFiles
    /\ \E prev \in CkOffsets :
          /\ sidecar = SaveData(file, prev)
          /\ startPos = prev
          /\ rt = [phase |-> "idle", prev |-> prev, pos |-> prev]
    /\ InitRest

\* save(pos) up to and including set_len(0) and seek (rotator.rs:329-331)
CrSetLen ==
    /\ rt.phase = "idle"
    /\ \E pos \in CkOffsets :
          rt' = [phase |-> "writing", prev |-> rt.prev, pos |-> pos]
    /\ sidecar' = <<>>
    /\ UNCHANGED <<file, startPos, ckFrame>>

\* write_all (rotator.rs:332): one more byte of the record reaches the file
CrWrite ==
    /\ rt.phase = "writing"
    /\ Len(sidecar) < Len(SaveData(file, rt.pos))
    /\ sidecar' = Take(SaveData(file, rt.pos), Len(sidecar) + 1)
    /\ UNCHANGED <<file, startPos, rt, ckFrame>>

\* write_all returned: self.position = pos, Ok(()) (rotator.rs:334-336)
CrReturn ==
    /\ rt.phase = "writing"
    /\ sidecar = SaveData(file, rt.pos)
    /\ rt' = [phase |-> "idle", prev |-> rt.pos, pos |-> rt.pos]
    /\ UNCHANGED <<file, sidecar, startPos, ckFrame>>

\* the process dies inside save; the next one runs recover_position
CrCrash ==
    /\ rt.phase = "writing"
    /\ startPos' = recover_position(sidecar, file).pos
    /\ sidecar' = recover_position(sidecar, file).sidecar
    /\ rt' = [rt EXCEPT !.phase = "recovered"]
    /\ UNCHANGED <<file, ckFrame>>

CrNext ==
    \/ CrSetLen
    \/ CrWrite
    \/ CrReturn
    \/ CrCrash

SpecCrash == CrInit /\ [][CrNext]_vars

(***************************************************************************)
(* Rotator::work over time (rotator.rs:157-215): writers, the Publisher's  *)
(* state_tx.send, the state branch of select!, and the rotation period.    *)
(* Here rt is [periods, missed, unsaved]: the rotation periods that have   *)
(* elapsed, at how many of them the target was longer than max_size and    *)
(* was still at its path afterwards, and the watch value of the last       *)
(* save that returned an error (<<>> when none has).                       *)
(***************************************************************************)
RtInit ==
    /\ file = <<>>
    /\ sidecar = recover_position(<<>>, <<>>).sidecar
    /\ startPos = recover_position(<<>>, <<>>).pos
    /\ rt = [periods |-> 0, missed |-> 0, unsaved |-> <<>>]
    /\ InitRest

\* state_tx.send(pos) by the Publisher (publisher.rs:44)
RtPublish ==
    /\ \E pos \in 0..Len(file) : watermark' = pos
    /\ wmChanged' = TRUE
    /\ UNCHANGED <<rt, fsVars, readerVars, queue, pubVars, wmRec, rotVars,
                   runVars>>

\* rotation_interval elapses.  The select! of work has no branch on
\* rotate_interval (rotator.rs:175-197 is commented out), so nothing calls
\* can_be_rotated or rotate and the target stays as it is.
RotatePeriod ==
    /\ rt.periods < MaxPeriods
    /\ rt' = [rt EXCEPT !.periods = rt.periods + 1,
                        !.missed = IF Len(file) > MaxSize THEN rt.missed + 1
                                   ELSE rt.missed]
    /\ UNCHANGED <<fsVars, readerVars, queue, pubVars, watchVars, rotVars,
                   runVars>>

\* the state branch with save(pos) returning an error (rotator.rs:204-211):
\* changed() returned and borrow_and_update marked the value seen; the error
\* came before set_len(0) (sidecar as it was) or after it (sidecar empty);
\* error! and the next turn of the loop
SaveFail ==
    /\ Alive
    /\ wmChanged
    /\ wmChanged' = FALSE
    /\ sidecar' \in {sidecar, <<>>}
    /\ rt' = [rt EXCEPT !.unsaved = <<watermark>>]
    /\ UNCHANGED <<fsVars, readerVars, queue, pubVars, watermark, wmRec, ckpt,
                   runVars>>

RtNext ==
    \/ AppendByte
    \/ RtPublish
    \/ Save
    \/ SaveFail
    \/ RotatePeriod

SpecRotator == RtInit /\ [][RtNext]_vars

\* the state tick comes every save_state_interval; the Publisher and the
\* writers owe nothing
SpecRotatorFair == SpecRotator /\ WF_vars(Save)

(***************************************************************************)
(* The process that keeps running: no restart, fnc.send always returns Ok, *)
(* and the Reader thread, the Publisher, the adapter and the Rotator's     *)
(* state tick each take their step when it stays possible.                 *)
(***************************************************************************)
\* started on an empty target, or on a one-line target whose line an earlier
\* run has or has not checkpointed
LiveInit ==
    /\ \E f \in {<<>>, <<NL>>} :
          \E p \in {0, Len(f)} :
             /\ file = f
             /\ sidecar = recover_position(SaveData(f, p), f).sidecar
             /\ startPos = recover_position(SaveData(f, p), f).pos
    /\ rt = NoRt
    /\ InitRest

LiveNext ==
    \/ AppendByte
    \/ Follow
    \/ BlockingSend
    \/ Recv
    \/ SendOk
    \/ Save

\* the Reader polls every TAIL_WAIT_DURATION, blocking_send returns once the
\* queue has room, recv once it has a line, fnc.send returns Ok, and the
\* state tick comes every save_state_interval
LiveFair ==
    /\ WF_vars(Follow)
    /\ WF_vars(BlockingSend)
    /\ WF_vars(Recv)
    /\ WF_vars(SendOk)
    /\ WF_vars(Save)

SpecLive == LiveInit /\ [][LiveNext]_vars /\ LiveFair

(***************************************************************************)
(* The same with the target renamed away and recreated.  Here rt is        *)
(* [ino, owed]: for the first file renamed away, its identity and the end  *)
(* offsets of its complete lines not yet passed to fnc.send at the rename. *)
(***************************************************************************)
LiveRotInit ==
    /\ file = <<>>
    /\ sidecar = recover_position(<<>>, <<>>).sidecar
    /\ startPos = recover_position(<<>>, <<>>).pos
    /\ rt = [ino |-> 0, owed |-> {}]
    /\ InitRest

\* rename + recreate, as Rotate, with the renamed file's unsent lines noted
RotateNoted ==
    /\ Faults < MaxFaults
    /\ inode' = inode + 1
    /\ file' = <<>>
    /\ nRot' = nRot + 1
    /\ Forget
    /\ rt' = IF Clean
             THEN [ino |-> inode,
                   owed |-> {LineEnds(file, startPos)[k] :
                               k \in (Len(sent) + 1)..Len(LineEnds(file, startPos))}]
             ELSE rt
    /\ UNCHANGED <<nTrunc, tail, rdPc, batch, nSig, queue, pubPc,
                   cur, watchVars, rotVars, startPos, nCrash>>

LiveRotNext ==
    \/ LiveNext
    \/ RotateNoted

SpecLiveRot == LiveRotInit /\ [][LiveRotNext]_vars /\ LiveFair

(***************************************************************************)
(* Rotator::rotate (rotator.rs:136-149) on the directory of the target.    *)
(* Here rt is [now, sib, res, n]: the formatted timestamp of the clock,    *)
(* the sibling "{path}.{timestamp}" for each timestamp, the result of the  *)
(* last call, and the number of calls.                                     *)
(***************************************************************************)
NoFile == [exists |-> FALSE, data |-> <<>>]

RoInit ==
    /\ file = <<>>
    /\ sidecar = recover_position(<<>>, <<>>).sidecar
    /\ startPos = recover_position(<<>>, <<>>).pos
    /\ rt = [now |-> 0, sib |-> [t \in 0..MaxStamp |-> NoFile],
             res |-> "none", n |-> 0]
    /\ InitRest

\* Utc::now().format(date_format) moves on
ClockTick ==
    /\ rt.now < MaxStamp
    /\ rt' = [rt EXCEPT !.now = rt.now + 1]
    /\ UNCHANGED <<fsVars, readerVars, queue, pubVars, watchVars, rotVars,
                   runVars>>

\* rotate returns Ok: fs::rename puts the target at the sibling path, in place
\* of whatever is there, and File::create makes a new empty target
RotateOk ==
    /\ rt.n < MaxRotations
    /\ rt' = [rt EXCEPT !.sib[rt.now] = [exists |-> TRUE, data |-> file],
                        !.res = "ok", !.n = rt.n + 1]
    /\ file' = <<>>
    /\ inode' = inode + 1
    /\ UNCHANGED <<nRot, nTrunc, readerVars, queue, pubVars, watchVars,
                   rotVars, runVars>>

\* fs::rename returns an I/O error, which rotate returns through `?`
RotateErr ==
    /\ rt.n < MaxRotations
    /\ rt' = [rt EXCEPT !.res = "err", !.n = rt.n + 1]
    /\ UNCHANGED <<fsVars, readerVars, queue, pubVars, watchVars, rotVars,
                   runVars>>

RoNext ==
    \/ AppendByte
    \/ ClockTick
    \/ RotateOk
    \/ RotateErr

SpecRotate == RoInit /\ [][RoNext]_vars

(***************************************************************************)
(* Reader::work with its failures (reader.rs:36-66): TailedFile::new or    *)
(* follow returning an I/O error, and blocking_send on a queue whose       *)
(* receiver is gone.  The Reader thread is at "start" before               *)
(* TailedFile::new, "notified" after notify_one, "panicked" after the      *)
(* unwrap of an Err.  The receiver is dropped when run returns, which it   *)
(* does once publish has returned; the thread lives on until the process   *)
(* is gone.                                                                *)
(***************************************************************************)
IoInit ==
    /\ file = <<>>
    /\ sidecar = recover_position(<<>>, <<>>).sidecar
    /\ startPos = recover_position(<<>>, <<>>).pos
    /\ rt = NoRt
    /\ inode = 1
    /\ watermark = startPos
    /\ wmChanged = TRUE
    /\ wmRec = NoLine
    /\ tail = [pos |-> startPos, ino |-> 1]
    /\ rdPc = "start"
    /\ batch = <<>>
    /\ queue = <<>>
    /\ pubPc = "recv"
    /\ cur = NoLine
    /\ nRot = 0 /\ nTrunc = 0 /\ nCrash = 0 /\ nSig = 0
    /\ emitted = <<>> /\ sent = <<>> /\ nAck = 0
    /\ lastAckEnd = 0 /\ crashAckEnd = 0
    /\ ckpt = NoCkpt

\* the select! of run has not been completed by watcher.notified()
Running == rdPc # "notified"

\* TailedFile::new returned Ok; set_pos (reader.rs:39-40)
Open ==
    /\ rdPc = "start"
    /\ rdPc' = "follow"
    /\ UNCHANGED <<rt, fsVars, tail, batch, nSig, emitted, queue, pubVars,
                   watchVars, rotVars, runVars>>

\* TailedFile::new returned Err: unwrap panics, the thread unwinds (tx is
\* dropped) and never reaches notify_one (reader.rs:39, 65)
OpenErr ==
    /\ rdPc = "start"
    /\ rdPc' = "panicked"
    /\ UNCHANGED <<rt, fsVars, tail, batch, nSig, emitted, queue, pubVars,
                   watchVars, rotVars, runVars>>

\* follow returned an I/O error: error!, break, notify_one (reader.rs:54-57, 65)
FollowErr ==
    /\ Alive
    /\ rdPc = "follow"
    /\ rdPc' = "notified"
    /\ UNCHANGED <<rt, fsVars, tail, batch, nSig, emitted, queue, pubVars,
                   watchVars, rotVars, runVars>>

\* blocking_send returned Err, the receiver being gone: error!, break out of
\* the for, sleep, and the loop goes on (reader.rs:46-49, 61)
SendClosed ==
    /\ ~Alive
    /\ rdPc = "send"
    /\ batch' = <<>>
    /\ rdPc' = "follow"
    /\ UNCHANGED <<rt, fsVars, tail, nSig, emitted, queue, pubVars, watchVars,
                   rotVars, runVars>>

\* a poll by the thread after publish has returned
PollAfterExit == ~Alive /\ Poll

\* recv returned None, the sender being gone after the panic: the while let
\* ends and publish returns (publisher.rs:37)
RecvClosed ==
    /\ rdPc = "panicked"
    /\ pubPc = "recv"
    /\ queue = <<>>
    /\ pubPc' = "exited"
    /\ UNCHANGED <<rt, fsVars, readerVars, queue, cur, sent, nAck, lastAckEnd,
                   watchVars, rotVars, runVars>>

IoNext ==
    \/ AppendByte
    \/ Open
    \/ OpenErr
    \/ Follow
    \/ FollowErr
    \/ BlockingSend
    \/ SendClosed
    \/ PollAfterExit
    \/ (Running /\ Recv)
    \/ RecvClosed
    \/ (Running /\ SendOk)
    \/ (Running /\ SendErr)
    \/ (Running /\ Save)

SpecIo == IoInit /\ [][IoNext]_vars

(***************************************************************************)
(* Rotator::new alone, on any sidecar content, and the hand-over of the    *)
(* recovered position to the watch and to the Reader (lib.rs, reader.rs).  *)
(* rt = [phase, content, ok]: the content found in the sidecar and whether *)
(* read_file returned Ok on it.                                            *)
(***************************************************************************)
MaxSc == 5

\* what a sidecar may hold: digits, separators, anything else
LdBytes == {Digit0, Digit0 + 1, SEMI, 97}

LdFiles == {<<>>, <<NL>>, <<97>>}

LdInit ==
    /\ file \in LdFiles
    /\ sidecar \in SeqsUpTo(LdBytes, MaxSc)
    /\ startPos = 0
    /\ rt = [phase |-> "start", content |-> sidecar, ok |-> TRUE]
    /\ InitRest

\* Rotator::new: SavedState::new, then recover_position
Construct ==
    /\ rt.phase = "start"
    /\ LET r == read_file(sidecar, file)
           rec == recover_position(sidecar, file)
       IN  /\ sidecar' = rec.sidecar
           /\ startPos' = rec.pos
           /\ rt' = [rt EXCEPT !.phase = "built", !.ok = r.ok]
    /\ UNCHANGED <<file, ckFrame>>

\* run(): state_tx.send(rotator.pos) and Reader::work's set_pos(self.pos)
HandOver ==
    /\ rt.phase = "built"
    /\ watermark' = startPos
    /\ wmChanged' = TRUE
    /\ tail' = [tail EXCEPT !.pos = startPos]
    /\ rt' = [rt EXCEPT !.phase = "running"]
    /\ UNCHANGED <<fsVars, rotVars, runVars, pubVars, rdPc, batch, nSig,
                   emitted, queue, wmRec>>

LdNext ==
    \/ Construct
    \/ HandOver

SpecLoad == LdInit /\ [][LdNext]_vars

(***************************************************************************)
(* SavedState across a replacement of the target: save(pos) by one         *)
(* process, the target renamed away and created anew while no process      *)
(* runs, read_file by the next process.  rt = [phase, ino, pos, ok]: the   *)
(* file the last save was made for, its offset, read_file's verdict.       *)
(***************************************************************************)
rpFrame == <<tail, rdPc, batch, queue, pubPc, cur, watermark, wmChanged,
             nTrunc, nCrash, nSig, emitted, sent, nAck, wmRec, lastAckEnd,
             crashAckEnd, ckpt>>

RpInit ==
    /\ file \in CkFiles
    /\ sidecar = recover_position(<<>>, file).sidecar
    /\ startPos = 0
    /\ rt = [phase |-> "idle", ino |-> 1, pos |-> 0, ok |-> TRUE]
    /\ InitRest

\* the last save of a run: an offset of the target as it is
RpSave ==
    /\ rt.phase # "saved"
    /\ \E pos \in 0..Len(file) :
          /\ sidecar' = SaveData(file, pos)
          /\ rt' = [phase |-> "saved", ino |-> inode, pos |-> pos, ok |-> TRUE]
    /\ UNCHANGED <<file, inode, nRot, startPos, rpFrame>>

\* a new file takes the target's place
RpReplace ==
    /\ rt.phase = "saved"
    /\ nRot < MaxRotations
    /\ \E f \in CkFiles : file' = f
    /\ inode' = inode + 1
    /\ nRot' = nRot + 1
    /\ UNCHANGED <<sidecar, startPos, rt, rpFrame>>

\* the next start: recover_position
RpLoad ==
    /\ rt.phase = "saved"
    /\ LET r == read_file(sidecar, file)
           rec == recover_position(sidecar, file)
       IN  /\ startPos' = rec.pos
           /\ sidecar' = rec.sidecar
           /\ rt' = [rt EXCEPT !.phase = "loaded", !.ok = r.ok]
    /\ UNCHANGED <<file, inode, nRot, rpFrame>>

RpNext ==
    \/ RpSave
    \/ RpReplace
    \/ RpLoad

SpecReplace == RpInit /\ [][RpNext]_vars

(***************************************************************************)
(* One run in which the target is neither rotated nor truncated, started   *)
(* on any target and on the sidecar an earlier run left: empty, or saved   *)
(* for that target or for the file that was at the path then.              *)
(***************************************************************************)
RunInit ==
    /\ file \in CkFiles
    /\ \E sc \in {<<>>} \cup UNION {{SaveData(g, p) : p \in 0..Len(g)} : g \in CkFiles} :
          /\ sidecar = recover_position(sc, file).sidecar
          /\ startPos = recover_position(sc, file).pos
    /\ rt = NoRt
    /\ InitRest

RunNext ==
    \/ LiveNext
    \/ SendErr

SpecRun == RunInit /\ [][RunNext]_vars

(***************************************************************************)
(* What the properties are stated against.                                 *)
(***************************************************************************)
\* the complete (newline-terminated) lines of f after byte offset from
CompleteLines(f, from) ==
    LET ends == LineEnds(f, from)
    IN  [k \in 1..Len(ends) |->
            SubSeq(f, (IF k = 1 THEN from ELSE ends[k - 1]) + 1, ends[k] - 1)]

LinesOf(items) == [k \in 1..Len(items) |-> items[k].line]
EndsOf(items) == [k \in 1..Len(items) |-> items[k].end]

\* the lines fnc.send has returned Ok for in this run
Acked == Take(sent, nAck)

(***************************************************************************)
(* C1. After a crash and restart (target neither rotated nor truncated),   *)
(* the recovered starting offset is not past the end of the last line the  *)
(* adapter acknowledged before the crash.                                  *)
(***************************************************************************)
C1_StartNotPastLastAck ==
    (nCrash > 0 /\ Clean) => startPos <= crashAckEnd

(***************************************************************************)
(* C2. Every (offset, line) on the line queue carries the byte position    *)
(* just past that line's own newline.                                      *)
(***************************************************************************)
C2_QueueOffsetIsLineEnd ==
    \A i \in 1..Len(queue) : queue[i].pos = queue[i].end

(***************************************************************************)
(* C3. If the watch holds X, every line of the current file whose end      *)
(* offset is at most X has been acknowledged (first run, target neither    *)
(* rotated nor truncated).                                                 *)
(***************************************************************************)
C3_WatermarkCoversAcked ==
    (Clean /\ nCrash = 0) =>
        \A k \in 1..Len(LineEnds(file, 0)) :
            LineEnds(file, 0)[k] <= watermark =>
                \E i \in 1..Len(Acked) : Acked[i].end = LineEnds(file, 0)[k]

(***************************************************************************)
(* C4. A checkpoint never holds an offset acknowledged for a line of one   *)
(* file together with the fingerprint of another file.                     *)
(***************************************************************************)
C4_CheckpointBindsOffsetToFile ==
    ckpt.offIno # 0 => ckpt.offIno = ckpt.fpIno

(***************************************************************************)
(* C5. A poll emits exactly the newline-terminated lines between the       *)
(* cursor and the last newline in the file and leaves the cursor just past *)
(* that newline (never past unterminated bytes); in a run without rotation *)
(* or truncation the lines emitted so far are the complete lines between   *)
(* the starting offset and the cursor, each once and whole.                *)
(***************************************************************************)
C5_PollEmitsWholeLinesOnce ==
    [][Follow =>
        /\ IF nSig' # nSig THEN batch' = <<>>
           ELSE /\ LinesOf(batch') = CompleteLines(file, tail.pos)
                /\ tail'.pos = IF LineEnds(file, tail.pos) = <<>> THEN tail.pos
                               ELSE Last(LineEnds(file, tail.pos))
        /\ Clean =>
              LinesOf(emitted') =
                  CompleteLines(Take(file, tail'.pos), startPos)]_vars

\* a line written as two appends (its byte, then its newline) has been emitted
C5_Witness ==
    /\ Clean
    /\ emitted # <<>>
    /\ Last(emitted).line # <<>>
    /\ Last(emitted).end = tail.pos

(***************************************************************************)
(* C6. In a run without rotation or truncation the lines passed to         *)
(* fnc.send are a prefix of the complete lines of the target from the      *)
(* starting offset on: same order, none omitted, none repeated.            *)
(***************************************************************************)
C6_SentIsPrefixOfFile ==
    Clean =>
        /\ IsPrefix(LinesOf(sent), CompleteLines(file, startPos))
        /\ IsPrefix(EndsOf(sent), LineEnds(file, startPos))

C6_Witness ==
    Clean /\ Len(sent) = 2 /\ nAck = 2

(***************************************************************************)
(* C7. With queue capacity 1, at most one line is in flight: past the      *)
(* Reader's cursor and not yet acknowledged by the adapter.                *)
(***************************************************************************)
C7_AtMostOneInFlight ==
    Clean =>
        Cardinality({k \in 1..Len(LineEnds(file, startPos)) :
                        LineEnds(file, startPos)[k] <= tail.pos}) - nAck <= 1

(***************************************************************************)
(* C8. A poll that reports no signal keeps the file identity and does not  *)
(* decrease the cursor (and increases it when it returns lines); a poll    *)
(* that reports rotation or truncation returns no lines and sets the       *)
(* cursor to 0.                                                            *)
(***************************************************************************)
C8_CursorMonotoneResetOnSignal ==
    [][Follow =>
        IF nSig' = nSig
        THEN /\ tail'.ino = tail.ino
             /\ tail'.pos >= tail.pos
             /\ batch' # <<>> => tail'.pos > tail.pos
        ELSE tail'.pos = 0 /\ batch' = <<>>]_vars

\* a poll has reported the truncation of a file it had read from
C8_Witness ==
    nTrunc > 0 /\ nSig > 0 /\ tail.pos = 0 /\ watermark > 0

C10_SaveLoadRoundTrip ==
    rt.phase = "loaded" =>
        /\ FirstLineText(file) = rt.line => (rt.ok /\ startPos = rt.pos)
        /\ FirstLineText(file) # rt.line => (rt.ok /\ startPos = 0)

(***************************************************************************)
(* C11. After a crash inside save (after set_len(0), or after only a       *)
(* prefix of the record was written) the offset recovered at the next      *)
(* start is 0, the previously saved offset, or the offset being saved.     *)
(***************************************************************************)
C11_CrashRecoversKnownOffset ==
    rt.phase = "recovered" => startPos \in {0, rt.prev, rt.pos}

(***************************************************************************)
(* C12. A target longer than max_size is renamed and recreated empty       *)
(* within one rotation period, whether or not the watch changes: no        *)
(* rotation period ends with an over-long target left at its path.         *)
(***************************************************************************)
C12_RotatedWithinPeriod ==
    rt.missed = 0

(***************************************************************************)
(* C13. Within one run of the process, the watch is written only by the    *)
(* step in which fnc.send returned Ok, with the offset of that same line;  *)
(* once fnc.send has returned an error the Publisher writes nothing to the *)
(* watch, takes no line from the queue, passes none to fnc.send and stays  *)
(* returned.                                                               *)
(***************************************************************************)
C13_WatermarkOnlyAfterOk ==
    [][nCrash' = nCrash =>
        /\ (watermark' # watermark \/ wmRec' # wmRec
                \/ (wmChanged' /\ ~wmChanged)) =>
              /\ pubPc = "send" /\ pubPc' = "recv"
              /\ watermark' = cur.pos
              /\ wmRec' = cur
        /\ pubPc = "exited" =>
              /\ pubPc' = "exited"
              /\ cur' = cur /\ queue' = queue
              /\ watermark' = watermark /\ wmRec' = wmRec]_vars

\* fnc.send failed for the first line while the second waits in the queue
C13_Witness ==
    /\ pubPc = "exited"
    /\ queue # <<>>
    /\ nAck = 0
    /\ watermark = startPos

\* the offset field of a sidecar holding two numeric fields, -1 otherwise
SidecarOffset(sc) ==
    IF Len(ParsedFields(sc)) = 2 THEN U64ToNat(ParsedFields(sc)[2]) ELSE -1

C16_RotateNeverOverwrites ==
    [][((RotateOk \/ RotateErr) /\ rt.sib[rt.now].exists) =>
          /\ rt'.res = "err"
          /\ rt'.sib = rt.sib
          /\ file' = file /\ inode' = inode]_vars

(***************************************************************************)
(* C17. Every complete line of the target not yet passed to fnc.send when  *)
(* the target is renamed away is eventually passed to fnc.send (the        *)
(* Reader keeps polling and fnc.send returns Ok).                          *)
(***************************************************************************)
C17_LinesBeforeRenameSent ==
    \A e \in 1..MaxLen :
        <>(e \in rt.owed) =>
            <>(pubPc = "send" /\ cur.ino = rt.ino /\ cur.end = e)

(***************************************************************************)
(* C18. The step in which blocking_send fails on the closed queue ends the *)
(* Reader thread with its notifier fired (no poll follows).                *)
(***************************************************************************)
C18_ClosedQueueEndsReader ==
    [][SendClosed => rdPc' = "notified"]_vars

(***************************************************************************)
(* C19. Every I/O error on the target met by the Reader thread, at         *)
(* TailedFile::new or in a later follow, ends the thread with its notifier *)
(* fired.                                                                  *)
(***************************************************************************)
C19_IoErrorFiresNotifier ==
    [][(OpenErr \/ FollowErr) => rdPc' = "notified"]_vars

(***************************************************************************)
(* C20. A watch value whose save returned an error is in the sidecar at    *)
(* some later time, whether or not the Publisher writes the watch again.   *)
(***************************************************************************)
C20_FailedSaveWrittenLater ==
    \A v \in 0..MaxLen :
        <>(rt.unsaved = <<v>>) =>
            <>(rt.unsaved = <<v>> /\ SidecarOffset(sidecar) = v)

\* content is exactly two decimal integers separated by a single ';'
TwoIntegers(content) ==
    \E i \in 2..(Len(content) - 1) :
        /\ content[i] = SEMI
        /\ \A j \in 1..Len(content) : j # i => IsDigit(content[j])

(***************************************************************************)
(* C21. read_file reports CorruptedSavedState for every non-empty sidecar  *)
(* content that is not exactly two decimal integers separated by a single  *)
(* ';', and returns no offset taken from such content.                     *)
(***************************************************************************)
C21_MalformedIsCorrupted ==
    (rt.phase # "start" /\ rt.content # <<>> /\ ~TwoIntegers(rt.content))
        => (~rt.ok /\ startPos = 0)

(***************************************************************************)
(* C22. At Rotator construction an empty sidecar is loaded as offset 0     *)
(* without being reported as corrupted, and a sidecar reported as          *)
(* CorruptedSavedState gives starting offset 0 and leaves the sidecar      *)
(* holding the current fingerprint with offset 0.                          *)
(***************************************************************************)
C22_EmptyIsZeroCorruptedIsReset ==
    rt.phase # "start" =>
        /\ rt.content = <<>> => (rt.ok /\ startPos = 0)
        /\ ~rt.ok => (startPos = 0 /\ sidecar = SaveData(file, 0))

(***************************************************************************)
(* C26. The starting offset handed to the Reader never exceeds the         *)
(* target's length at startup, for every sidecar content and every target. *)
(***************************************************************************)
C26_StartWithinTarget ==
    rt.phase = "running" => (startPos <= Len(file) /\ tail.pos <= Len(file))

(***************************************************************************)
(* C23 as claimed.  After the target has shrunk while keeping its          *)
(* identity, the next poll reports truncation, returns no lines and sets   *)
(* the cursor to 0, whatever the cursor and the new length.                *)
(***************************************************************************)
C23_ShrinkSignalledAtNextPoll ==
    [][(Follow /\ nRot = 0 /\ nCrash = 0 /\ nTrunc > nSig) =>
          (nSig' = nSig + 1 /\ tail'.pos = 0 /\ batch' = <<>>)]_vars

(***************************************************************************)
(* C23 amended.  A poll that finds the same file shorter than the cursor   *)
(* reports truncation, returns no lines and sets the cursor to 0; a poll   *)
(* that finds the same file at least as long as the cursor reports nothing *)
(* and emits the complete lines after the cursor, so the poll after a      *)
(* truncation signal emits the complete lines from byte 0.                 *)
(***************************************************************************)
C23_ShortOfCursorSignalled ==
    [][Follow =>
        IF tail.ino = inode /\ Len(file) < tail.pos
        THEN /\ nSig' = nSig + 1
             /\ tail' = [pos |-> 0, ino |-> inode]
             /\ batch' = <<>>
        ELSE tail.ino = inode =>
                /\ nSig' = nSig
                /\ LinesOf(batch') = CompleteLines(file, tail.pos)]_vars

\* after a truncation signal, a poll has emitted lines read from byte 0
C23_Witness ==
    /\ nTrunc = 1 /\ nRot = 0 /\ nCrash = 0
    /\ nSig = 1
    /\ batch # <<>>
    /\ batch[1].ep = 1
    /\ LinesOf(batch) = CompleteLines(file, 0)

C25_OffsetNotReusedForNewFile ==
    (rt.phase = "loaded" /\ inode # rt.ino) => startPos = 0

(***************************************************************************)
(* C27. In every state of a run in which the target is neither rotated nor *)
(* truncated, the offset stored in the sidecar is at most the watch value, *)
(* which is at most the Reader's cursor; and the sidecar offset is the     *)
(* recovered starting offset or a value the watch held when it was saved.  *)
(***************************************************************************)
C27_SidecarWatermarkCursorOrdered ==
    /\ SidecarOffset(sidecar) = startPos
    /\ [](SidecarOffset(sidecar) <= watermark /\ watermark <= tail.pos)
    /\ [][sidecar' # sidecar => SidecarOffset(sidecar') = watermark]_vars

====
